---------------------------- MODULE Spec2Model ----------------------------
(***************************************************************************)
(* A model of risk_management_dashboard.py: the Streamlit script, its      *)
(* RiskManagementClient and the trade / position pipeline it feeds.        *)
(*                                                                         *)
(* Python dicts are TLA+ records: a key the dict lacks is a field the      *)
(* record lacks (see Get).  Money is an integer number of Units, one Unit  *)
(* being 0.00001 USD, so that the two display formats (2 and 4 decimals)   *)
(* are roundings the model can compute.  Time is in epoch milliseconds.    *)
(***************************************************************************)
EXTENDS Integers, Sequences, FiniteSets, TLC

VARIABLES
    config,         \* what get_config finds: [source, wallet_address, private_key]
    pc,             \* position of the script run
    trigger,        \* what started the current script run
    hasClient,      \* 'client' in st.session_state
    client,         \* RiskManagementClient.client: "conn" or "none" (None)
    initRuns,       \* how often _initialize_client has run in this session
    balance,        \* return of get_account_balance in this run
    positions,      \* return of get_open_positions in this run
    trades,         \* return of get_trade_history in this run
    opRaised,       \* an exception escaped a client operation in this run
    invoked,        \* client operations invoked in this run
    calls,          \* gateway calls made in this run, per endpoint
    msgs,           \* st.error / st.warning messages emitted in this run
    filter_symbol,  \* widget state of "Filter by Symbol"
    filter_side,    \* widget state of "Filter by Side"
    view,           \* the trade section as displayed: rows, table, statistics
    streak,         \* consecutive earlier runs in which all three operations failed
    answered,       \* what the gateway answered to fetch_balance / fetch_positions
    xPositions,     \* the exchange: raw positions of the account
    xTrades,        \* the exchange: raw fills of the account, per symbol
    failed          \* symbols whose fetch_my_trades raised in the last call

vars == <<config, pc, trigger, hasClient, client, initRuns, balance, positions,
          trades, opRaised, invoked, calls, msgs, filter_symbol, filter_side,
          view, streak, answered, xPositions, xTrades, failed>>

sessionVars == <<config, pc, trigger, hasClient, client, initRuns, balance,
                 positions, trades, opRaised, invoked, calls, msgs,
                 filter_symbol, filter_side, view, streak, answered>>

---------------------------------------------------------------------------
(* Bounds of the model *)

MaxPositions == 3
MaxTrades == 3
MaxStatTrades == 2
MaxStreak == 2

---------------------------------------------------------------------------
(* Python values *)

\* None in a slot that otherwise holds a non-negative integer
Null == 0 - 1

\* None in a slot that otherwise holds a dict
None == [none |-> TRUE]

IsNone(v) == "none" \in DOMAIN v

\* dict.get(key, default)
Get(d, k, default) == IF k \in DOMAIN d THEN d[k] ELSE default

\* an element of a payload list that is not a dict (x.get raises AttributeError)
Junk == [junk |-> TRUE]

IsDict(x) == "junk" \notin DOMAIN x

\* the candidate symbol list of get_trade_history, in fetch order
symbols == <<"BTC/USDC:USDC", "ETH/USDC:USDC", "SOL/USDC:USDC",
             "XRP/USDC:USDC", "AVAX/USDC:USDC">>

SymbolSet == {symbols[i] : i \in 1..Len(symbols)}

\* datetime.now() of a run, in epoch milliseconds: later than every fill
NowMs == 9 * 1000

\* gateway responses: the call raises, returns None, or returns a payload
Raise(e) == [kind |-> "raise", exc |-> e]

ReturnsNone == [kind |-> "none"]

Payload(p) == [kind |-> "ok", payload |-> p]

\* the exceptions a gateway call raises (ccxt errors, all Exception subclasses)
GatewayErrors == {"NetworkError", "AuthenticationError"}

\* raised by the client code itself on a malformed payload
RuntimeErrors == {"TypeError", "AttributeError"}

\* what a client operation hands back: a value, or an exception that escapes
Returned(v, ncalls, m) == [raised |-> FALSE, ret |-> v, calls |-> ncalls, msgs |-> m]

Escaped(e, ncalls) == [raised |-> TRUE, ret |-> <<>>, calls |-> ncalls, msgs |-> {}]

ExceptNetworkErrorOnly(e) == e = "NetworkError"

\* `except Exception as e`: catches every Exception subclass
ExceptException(e) == e \in GatewayErrors \cup RuntimeErrors

---------------------------------------------------------------------------
(* RiskManagementClient.get_open_positions *)

RECURSIVE KeepNonZero(_)
\* [pos for pos in positions if pos.get('contracts', 0) != 0]
KeepNonZero(ps) ==
    IF ps = <<>> THEN <<>>
    ELSE IF Get(Head(ps), "contracts", 0) # 0
         THEN <<Head(ps)>> \o KeepNonZero(Tail(ps))
         ELSE KeepNonZero(Tail(ps))

RECURSIVE KeepPositive(_)
KeepPositive(ps) ==
    IF ps = <<>> THEN <<>>
    ELSE IF Get(Head(ps), "contracts", 0) > 0
         THEN <<Head(ps)>> \o KeepPositive(Tail(ps))
         ELSE KeepPositive(Tail(ps))

ActivePositions(ps) == KeepNonZero(ps)

\* the exception the body of the try raises, "" when it raises none
PositionsBodyError(resp) ==
    IF resp.kind = "raise" THEN resp.exc
    ELSE IF resp.kind = "none" THEN "TypeError"
    ELSE IF \E i \in 1..Len(resp.payload) : ~IsDict(resp.payload[i])
         THEN "AttributeError"
    ELSE ""

GetOpenPositions(cl, resp) ==
    IF cl = "none" THEN Returned(<<>>, 0, {})
    ELSE LET e == PositionsBodyError(resp) IN
         IF e = "" THEN Returned(ActivePositions(resp.payload), 1, {})
         ELSE IF ExceptException(e)
              THEN Returned(<<>>, 1, {"Error fetching positions"})
         ELSE Escaped(e, 1)

---------------------------------------------------------------------------
(* RiskManagementClient.get_account_balance *)

GetAccountBalance(cl, resp) ==
    IF cl = "none" THEN Returned(None, 0, {})
    ELSE IF resp.kind = "raise"
         THEN IF ExceptException(resp.exc)
              THEN Returned(None, 1, {"Error fetching balance"})
              ELSE Escaped(resp.exc, 1)
    ELSE IF resp.kind = "none" THEN Returned(None, 1, {})
    ELSE Returned(resp.payload, 1, {})

---------------------------------------------------------------------------
(* RiskManagementClient.get_trade_history *)

SortKeyDefaultNow(x) == Get(x, "timestamp", NowMs)

\* key=lambda x: x.get('timestamp', 0)
SortKey(x) == Get(x, "timestamp", 0)

RECURSIVE InsertDesc(_, _)
\* x goes behind every element whose key is greater or equal
InsertDesc(sorted, x) ==
    IF sorted = <<>> THEN <<x>>
    ELSE IF SortKey(Head(sorted)) >= SortKey(x)
         THEN <<Head(sorted)>> \o InsertDesc(Tail(sorted), x)
         ELSE <<x>> \o sorted

RECURSIVE StableDesc(_)
StableDesc(ts) ==
    IF ts = <<>> THEN <<>>
    ELSE InsertDesc(StableDesc(SubSeq(ts, 1, Len(ts) - 1)), ts[Len(ts)])

RECURSIVE InsertAsc(_, _)
InsertAsc(sorted, x) ==
    IF sorted = <<>> THEN <<x>>
    ELSE IF SortKey(Head(sorted)) <= SortKey(x)
         THEN <<Head(sorted)>> \o InsertAsc(Tail(sorted), x)
         ELSE <<x>> \o sorted

RECURSIVE StableAsc(_)
StableAsc(ts) ==
    IF ts = <<>> THEN <<>>
    ELSE InsertAsc(StableAsc(SubSeq(ts, 1, Len(ts) - 1)), ts[Len(ts)])

Reverse(s) == [i \in 1..Len(s) |-> s[Len(s) + 1 - i]]

\* sorted ascending, then reversed: ties come out in reverse fetch order
AscendingReversed(ts) == Reverse(StableAsc(ts))

\* all_trades.sort(key=..., reverse=True): stable, newest first
SortNewestFirst(ts) == StableDesc(ts)

\* the exception the sort raises, "" when it raises none
SortError(ts) ==
    IF \E i \in 1..Len(ts) : ~IsDict(ts[i]) THEN "AttributeError"
    ELSE IF Len(ts) >= 2 /\ \E i \in 1..Len(ts) : SortKey(ts[i]) = Null
         THEN "TypeError"
    ELSE ""

RECURSIVE LoopFrom(_, _)
\* the for loop from symbol i on: a fetch that raises (or whose result
\* cannot extend the list) is skipped by the bare except
LoopFrom(i, resps) ==
    IF i > Len(symbols) THEN [all |-> <<>>, calls |-> 0]
    ELSE LET rest == LoopFrom(i + 1, resps)
             r == resps[symbols[i]]
         IN  [all |-> (IF r.kind = "ok" THEN r.payload ELSE <<>>) \o rest.all,
              calls |-> 1 + rest.calls]

RECURSIVE LoopBreakFrom(_, _)
LoopBreakFrom(i, resps) ==
    IF i > Len(symbols) THEN [all |-> <<>>, calls |-> 0]
    ELSE LET r == resps[symbols[i]] IN
         IF r.kind # "ok" THEN [all |-> <<>>, calls |-> 1]
         ELSE LET rest == LoopBreakFrom(i + 1, resps) IN
              [all |-> r.payload \o rest.all, calls |-> 1 + rest.calls]

FetchLoopBreak(resps) == LoopBreakFrom(1, resps)

FetchLoop(resps) == LoopFrom(1, resps)

GetTradeHistory(cl, resps) ==
    IF cl = "none" THEN Returned(<<>>, 0, {})
    ELSE LET loop == FetchLoop(resps)
             e == SortError(loop.all)
         IN  IF e = "" THEN Returned(SortNewestFirst(loop.all), loop.calls, {})
             ELSE IF ExceptException(e)
                  THEN Returned(<<>>, loop.calls, {"Error fetching trade history"})
             ELSE Escaped(e, loop.calls)

---------------------------------------------------------------------------
(* Trade History section: rows, filters, statistics *)

UnitsPerCent == 1000
UnitsPerTenThousandth == 10
MsPerSecond == 1000

\* x / d rounded to the nearest integer, ties to even, as the format
\* specifications .2f and .4f round
RoundDiv(x, d) ==
    LET q == x \div d
        r == x % d
    IN  IF 2 * r < d THEN q
        ELSE IF 2 * r > d THEN q + 1
        ELSE IF q % 2 = 0 THEN q ELSE q + 1

\* f"${closed_pnl:,.2f}": the string, held as the number of cents it shows
FormatCents(x) == RoundDiv(x, UnitsPerCent)

\* f"${fee_cost:.4f}": the string, held as the number of 0.0001 USD it shows
FormatTenThousandths(x) == RoundDiv(x, UnitsPerTenThousandth)

\* float(pnl.replace('$', '').replace(',', '')) of a 2-decimal string
ParseCents(c) == c * UnitsPerCent

\* float(fee.replace('$', '').replace(',', '')) of a 4-decimal string
ParseTenThousandths(f) == f * UnitsPerTenThousandth

\* side.upper()
Upper(side) ==
    IF side = "buy" THEN "BUY" ELSE IF side = "sell" THEN "SELL" ELSE side

\* fee = trade.get('fee', {}); fee.get('cost', 0) if isinstance(fee, dict) else 0
FeeCost(trade) ==
    IF "fee" \notin DOMAIN trade THEN 0
    ELSE IF ~IsDict(trade.fee) THEN 0
    ELSE Get(trade.fee, "cost", 0)

\* info.get('closedPnl', None), None becoming 0.0
ClosedPnl(trade) ==
    IF "info" \notin DOMAIN trade THEN 0
    ELSE Get(trade.info, "closedPnl", 0)

\* datetime.fromtimestamp(timestamp / 1000) if timestamp else datetime.now(),
\* shown by strftime to the second
DisplayTime(trade, now) ==
    LET timestamp == Get(trade, "timestamp", 0) IN
    IF timestamp # 0 /\ timestamp # Null
    THEN timestamp \div MsPerSecond
    ELSE now \div MsPerSecond

TradeRow(trade, now) ==
    [Time |-> DisplayTime(trade, now),
     Symbol |-> Get(trade, "symbol", "N/A"),
     Side |-> Upper(Get(trade, "side", "N/A")),
     Fee |-> FormatTenThousandths(FeeCost(trade)),
     ClosedPnL |-> FormatCents(ClosedPnl(trade))]

\* trades_data, one row per trade, in the order of trades
TradesData(ts, now) == [i \in 1..Len(ts) |-> TradeRow(ts[i], now)]

\* ["All"] + list(df_trades['Symbol'].unique())
SymbolOptions(rows) == {"All"} \cup {rows[i].Symbol : i \in 1..Len(rows)}

SideOptions == {"All", "BUY", "SELL"}

RECURSIVE Where(_, _, _)
Where(rows, fsym, fside) ==
    IF rows = <<>> THEN <<>>
    ELSE LET r == Head(rows)
             keep == (fsym = "All" \/ r.Symbol = fsym)
                     /\ (fside = "All" \/ r.Side = fside)
         IN  (IF keep THEN <<r>> ELSE <<>>) \o Where(Tail(rows), fsym, fside)

\* filtered_df
ApplyFilters(rows, fsym, fside) == Where(rows, fsym, fside)

RECURSIVE SumPnl(_)
SumPnl(rows) ==
    IF rows = <<>> THEN 0 ELSE ParseCents(Head(rows).ClosedPnL) + SumPnl(Tail(rows))

RECURSIVE SumFees(_)
SumFees(rows) ==
    IF rows = <<>> THEN 0
    ELSE ParseTenThousandths(Head(rows).Fee) + SumFees(Tail(rows))

\* the Trade Statistics expander: empty when no row passes the filters
TradeStatistics(filtered) ==
    IF Len(filtered) > 0
    THEN LET total_closed_pnl == SumPnl(filtered)
             total_fees == SumFees(filtered)
             net_pnl == total_closed_pnl - total_fees
         IN  [shown |-> TRUE,
              total_closed_pnl |-> total_closed_pnl,
              total_fees |-> total_fees,
              net_pnl |-> net_pnl,
              NetPnL |-> FormatCents(net_pnl)]
    ELSE [shown |-> FALSE]

\* nothing of the section but st.info("No trades ...") is on the page
NoView == [rendered |-> FALSE]

\* the section as rendered from this run's trades and the widget state
RenderTrades(ts, fsym, fside, now) ==
    IF Len(ts) = 0 THEN NoView
    ELSE LET rows == TradesData(ts, now)
             fs == IF fsym \in SymbolOptions(rows) THEN fsym ELSE "All"
             table == ApplyFilters(rows, fs, fside)
         IN  [rendered |-> TRUE, rows |-> rows, filter_symbol |-> fs,
              filter_side |-> fside, table |-> table,
              stats |-> TradeStatistics(table)]

---------------------------------------------------------------------------
(* The state after construction, and the pieces the specifications share *)

Ops == {"get_account_balance", "get_open_positions", "get_trade_history"}

NoCalls == [fetch_balance |-> 0, fetch_positions |-> 0, fetch_my_trades |-> 0]

NoFills == [s \in SymbolSet |-> <<>>]

NotAsked == [kind |-> "not asked"]

NoAnswers == [fetch_balance |-> NotAsked, fetch_positions |-> NotAsked]

\* the locals of a script run before any section has run
FreshRun ==
    /\ balance = None
    /\ positions = <<>>
    /\ trades = <<>>
    /\ opRaised = FALSE
    /\ invoked = {}
    /\ calls = NoCalls
    /\ msgs = {}
    /\ view = NoView
    /\ answered = NoAnswers

\* a session whose client was constructed, between two script runs
ConnectedSession ==
    /\ config = [source |-> "secrets", wallet_address |-> "set", private_key |-> "set"]
    /\ pc = "idle"
    /\ trigger = "load"
    /\ hasClient = TRUE
    /\ client = "conn"
    /\ initRuns = 1
    /\ filter_symbol = "All"
    /\ filter_side = "All"
    /\ streak = 0
    /\ FreshRun

EmptyExchange ==
    /\ xPositions = <<>>
    /\ xTrades = NoFills
    /\ failed = {}

---------------------------------------------------------------------------
(* get_open_positions applied to every raw position list *)

\* raw positions of the gateway: contracts missing, zero, negative, positive
PositionCatalog ==
    {[symbol |-> "BTC/USDC:USDC", side |-> "long"],
     [symbol |-> "BTC/USDC:USDC", side |-> "long", contracts |-> 0],
     [symbol |-> "ETH/USDC:USDC", side |-> "short", contracts |-> 0 - 2],
     [symbol |-> "ETH/USDC:USDC", side |-> "long", contracts |-> 1],
     [symbol |-> "SOL/USDC:USDC", side |-> "long", contracts |-> 3]}

\* the exchange reports one more position
ExchangePosition ==
    /\ invoked = {}
    /\ Len(xPositions) < MaxPositions
    /\ \E p \in PositionCatalog : xPositions' = Append(xPositions, p)
    /\ UNCHANGED <<sessionVars, xTrades, failed>>

\* one call of get_open_positions; the gateway answers with the raw list or raises
CallGetOpenPositions ==
    /\ invoked = {}
    /\ \E down \in BOOLEAN :
         LET resp == IF down THEN Raise("NetworkError") ELSE Payload(xPositions)
             r == GetOpenPositions(client, resp)
         IN  /\ positions' = r.ret
             /\ opRaised' = r.raised
             /\ msgs' = r.msgs
             /\ calls' = [calls EXCEPT !.fetch_positions = r.calls]
             /\ failed' = IF down THEN {"fetch_positions"} ELSE {}
    /\ invoked' = {"get_open_positions"}
    /\ UNCHANGED <<config, pc, trigger, hasClient, client, initRuns, balance,
                   trades, filter_symbol, filter_side, view, streak, answered,
                   xPositions, xTrades>>

InitPositions == ConnectedSession /\ EmptyExchange

NextPositions == ExchangePosition \/ CallGetOpenPositions

SpecPositions == InitPositions /\ [][NextPositions]_vars

\* the entries of raw whose size is not zero, in the order of raw
NonZeroEntries(raw) ==
    SelectSeq(raw, LAMBDA p : "contracts" \in DOMAIN p /\ p.contracts # 0)

\* C9: get_open_positions returns, in the original order, exactly the raw
\* entries whose size is nonzero, negative ones included and zero ones excluded
C9_NonZeroPositionsKept ==
    (invoked = {"get_open_positions"} /\ failed = {}) =>
        /\ positions = NonZeroEntries(xPositions)
        /\ \A i \in 1..Len(positions) : positions[i].contracts # 0

\* a zero-size position fetched alongside a negative and a positive one
C9_Witness ==
    /\ invoked = {"get_open_positions"}
    /\ failed = {}
    /\ Len(xPositions) = 3
    /\ Len(positions) = 2
    /\ \E i \in 1..3 : "contracts" \in DOMAIN xPositions[i] /\ xPositions[i].contracts = 0
    /\ \E i \in 1..2 : positions[i].contracts < 0
    /\ \E i \in 1..2 : positions[i].contracts > 0

---------------------------------------------------------------------------
(* get_trade_history applied to every per-symbol result, with every subset *)
(* of the symbols failing                                                  *)

\* fills of one symbol: timestamp missing, zero, and two positive ones; the
\* fill without timestamp and the one with timestamp 0 sort alike and differ.
\* The last two symbols have two kinds of fill only.
FillsOf(s) ==
    {[symbol |-> s, side |-> "buy"],
     [symbol |-> s, side |-> "sell", timestamp |-> 2500]}
    \cup (IF s \in {symbols[4], symbols[5]} THEN {}
          ELSE {[symbol |-> s, side |-> "sell", timestamp |-> 0],
                [symbol |-> s, side |-> "buy", timestamp |-> 1000]})

RECURSIVE FillsFrom(_, _)
FillsFrom(i, fills) ==
    IF i > Len(symbols) THEN 0
    ELSE Len(fills[symbols[i]]) + FillsFrom(i + 1, fills)

TotalFills(fills) == FillsFrom(1, fills)

\* the exchange records one more fill of the account
ExchangeFill ==
    /\ invoked = {}
    /\ TotalFills(xTrades) < MaxTrades
    /\ \E s \in SymbolSet : \E t \in FillsOf(s) :
         xTrades' = [xTrades EXCEPT ![s] = Append(@, t)]
    /\ UNCHANGED <<sessionVars, xPositions, failed>>

\* what fetch_my_trades answers per symbol when the symbols in down raise
TradeResponses(fills, down) ==
    [s \in SymbolSet |-> IF s \in down THEN Raise("NetworkError")
                         ELSE Payload(fills[s])]

\* one call of get_trade_history, and the rows made of its result
CallGetTradeHistory ==
    /\ invoked = {}
    /\ \E down \in SUBSET SymbolSet :
         LET r == GetTradeHistory(client, TradeResponses(xTrades, down)) IN
         /\ trades' = r.ret
         /\ opRaised' = r.raised
         /\ msgs' = r.msgs
         /\ calls' = [calls EXCEPT !.fetch_my_trades = r.calls]
         /\ failed' = down
         /\ view' = RenderTrades(r.ret, filter_symbol, filter_side, NowMs)
    /\ invoked' = {"get_trade_history"}
    /\ UNCHANGED <<config, pc, trigger, hasClient, client, initRuns, balance,
                   positions, filter_symbol, filter_side, streak, answered,
                   xPositions, xTrades>>

InitTrades == ConnectedSession /\ EmptyExchange

NextTrades == ExchangeFill \/ CallGetTradeHistory

SpecTrades == InitTrades /\ [][NextTrades]_vars

RECURSIVE ConcatFrom(_, _, _)
\* the results of the symbols that did not fail, in symbol-list order
ConcatFrom(i, fills, down) ==
    IF i > Len(symbols) THEN <<>>
    ELSE (IF symbols[i] \in down THEN <<>> ELSE fills[symbols[i]])
         \o ConcatFrom(i + 1, fills, down)

Fetched == ConcatFrom(1, xTrades, failed)

\* the timestamp of a fill, 0 when it has none
TimestampOf(t) == IF "timestamp" \in DOMAIN t THEN t.timestamp ELSE 0

\* where the i-th fetched fill belongs: behind every fill with a greater
\* timestamp and behind the earlier-fetched fills of the same timestamp
PlaceOf(in, i) ==
    1 + Cardinality({j \in 1..Len(in) : TimestampOf(in[j]) > TimestampOf(in[i])})
      + Cardinality({j \in 1..(i - 1) : TimestampOf(in[j]) = TimestampOf(in[i])})

Called == invoked = {"get_trade_history"}

\* C7: the result of get_trade_history is the concatenation of the per-symbol
\* results ordered by timestamp descending, fills of equal timestamp keeping
\* their fetch order, and none dropped or merged
C7_StableNewestFirst ==
    Called =>
        /\ Len(trades) = Len(Fetched)
        /\ \A i \in 1..Len(Fetched) : trades[PlaceOf(Fetched, i)] = Fetched[i]
        /\ \A i \in 1..(Len(trades) - 1) :
             TimestampOf(trades[i]) >= TimestampOf(trades[i + 1])

\* the newest fill is fetched last and comes out first; the two fills of one
\* timestamp, from the first and the third symbol, keep their fetch order
C7_Witness ==
    /\ Called
    /\ failed = {}
    /\ Len(trades) = 3
    /\ TimestampOf(trades[1]) = 2500 /\ trades[1].symbol = symbols[5]
    /\ TimestampOf(trades[2]) = 1000 /\ trades[2].symbol = symbols[1]
    /\ TimestampOf(trades[3]) = 1000 /\ trades[3].symbol = symbols[3]

\* C8: whatever subset of the symbols fails, all five are fetched, no message
\* is emitted, and the result holds the fills of the other symbols, each as
\* often as fetched, newest first
C8_FailedSymbolsSkipped ==
    Called =>
        /\ calls.fetch_my_trades = Len(symbols)
        /\ msgs = {}
        /\ ~opRaised
        /\ \A s \in SymbolSet :
             Cardinality({i \in 1..Len(trades) : trades[i].symbol = s})
                 = IF s \in failed THEN 0 ELSE Len(xTrades[s])
        /\ \A s \in SymbolSet \ failed : \A t \in FillsOf(s) :
             Cardinality({i \in 1..Len(trades) : trades[i] = t})
                 = Cardinality({i \in 1..Len(xTrades[s]) : xTrades[s][i] = t})
        /\ \A i \in 1..(Len(trades) - 1) :
             TimestampOf(trades[i]) >= TimestampOf(trades[i + 1])

\* the second and fourth symbol fail, the third and fifth deliver
C8_Witness ==
    /\ Called
    /\ failed = {symbols[2], symbols[4]}
    /\ xTrades[symbols[2]] # <<>>
    /\ Len(trades) = 2
    /\ {trades[1].symbol, trades[2].symbol} = {symbols[3], symbols[5]}

HasNoTime(t) == "timestamp" \notin DOMAIN t \/ t.timestamp = 0

\* C10: a fill without a timestamp, or with timestamp 0, comes behind every
\* fill with a positive timestamp, and its row shows the current time
C10_NoTimestampSortsLast ==
    Called =>
        /\ \A i, j \in 1..Len(trades) :
             (HasNoTime(trades[i]) /\ ~HasNoTime(trades[j])) => j < i
        /\ view.rendered = (Len(trades) > 0)
        /\ \A i \in 1..Len(trades) :
             view.rows[i].Time = IF HasNoTime(trades[i])
                                 THEN NowMs \div MsPerSecond
                                 ELSE trades[i].timestamp \div MsPerSecond

\* the Time column increases from one row to the next
C10_Witness ==
    /\ Called
    /\ Len(trades) = 3
    /\ ~HasNoTime(trades[1])
    /\ "timestamp" \notin DOMAIN trades[2]
    /\ "timestamp" \in DOMAIN trades[3]
    /\ view.rows[1].Time < view.rows[2].Time

---------------------------------------------------------------------------
(* The Trade History section applied to fills with closed PnL and fees,    *)
(* under every filter selection                                            *)

\* fills with a closed PnL below a cent, a fee below 0.0001 USD, a negative
\* closed PnL, and without closedPnl / fee; amounts in Units of 0.00001 USD
StatFills ==
    {[symbol |-> symbols[1], side |-> "buy", timestamp |-> 2500,
      info |-> [closedPnl |-> 400], fee |-> [cost |-> 4]],
     [symbol |-> symbols[1], side |-> "sell", timestamp |-> 1000,
      info |-> [closedPnl |-> 0 - 1006], fee |-> [currency |-> "USDC"]],
     [symbol |-> symbols[2], side |-> "buy", timestamp |-> 1000,
      info |-> [oid |-> 7]],
     [symbol |-> symbols[2], side |-> "buy", timestamp |-> 2500,
      info |-> [closedPnl |-> 123000], fee |-> [cost |-> 50]]}

\* the exchange records one more fill of the account
ExchangeStatFill ==
    /\ invoked = {}
    /\ TotalFills(xTrades) < MaxStatTrades
    /\ \E t \in StatFills :
         xTrades' = [xTrades EXCEPT ![t.symbol] = Append(@, t)]
    /\ UNCHANGED <<sessionVars, xPositions, failed>>

\* the section: the fetch, the rows, the filters the user has chosen among
\* the options offered, the table and the statistics
ShowTradeHistory ==
    /\ invoked = {}
    /\ LET r == GetTradeHistory(client, TradeResponses(xTrades, {}))
           rows == TradesData(r.ret, NowMs)
       IN  /\ trades' = r.ret
           /\ opRaised' = r.raised
           /\ msgs' = r.msgs
           /\ calls' = [calls EXCEPT !.fetch_my_trades = r.calls]
           /\ \E fsym \in SymbolOptions(rows) : \E fside \in SideOptions :
                /\ filter_symbol' = fsym
                /\ filter_side' = fside
                /\ view' = RenderTrades(r.ret, fsym, fside, NowMs)
    /\ invoked' = {"get_trade_history"}
    /\ UNCHANGED <<config, pc, trigger, hasClient, client, initRuns, balance,
                   positions, streak, answered, xPositions, xTrades, failed>>

InitStats == ConnectedSession /\ EmptyExchange

NextStats == ExchangeStatFill \/ ShowTradeHistory

SpecStats == InitStats /\ [][NextStats]_vars

\* the trade records that pass the filter selection
Passing(ts, fsym, fside) ==
    SelectSeq(ts, LAMBDA t : /\ (fsym = "All" \/ t.symbol = fsym)
                              /\ (fside = "All" \/ Upper(t.side) = fside))

RECURSIVE NetOf(_)
\* the normalized closed PnL of the records, less their fee amounts
NetOf(ts) ==
    IF ts = <<>> THEN 0
    ELSE ClosedPnl(Head(ts)) - FeeCost(Head(ts)) + NetOf(Tail(ts))

\* C6: for a filter selection that some record passes, the displayed net
\* PnL is the sum of the closed PnL of the trade records passing the filter
\* less the sum of their fees
C6_NetPnlOfFilteredTrades ==
    (Called /\ view.rendered /\ view.stats.shown) =>
        view.stats.NetPnL
            = FormatCents(NetOf(Passing(trades, filter_symbol, filter_side)))

\* C6, the empty selection: a net PnL of 0 is displayed
C6_EmptySelectionShowsZero ==
    (Called /\ view.rendered
     /\ Passing(trades, filter_symbol, filter_side) = <<>>) =>
        (view.stats.shown /\ view.stats.NetPnL = 0)

\* what the section shows instead: nothing for an empty selection, else the
\* difference of the sums of the amounts as the rows display them
NetPnlOfDisplayedAmounts ==
    (Called /\ view.rendered) =>
        LET sel == Passing(trades, filter_symbol, filter_side) IN
        /\ view.stats.shown = (Len(sel) > 0)
        /\ Len(view.table) = Len(sel)
        /\ view.stats.shown =>
             view.stats.net_pnl = SumPnl(view.table) - SumFees(view.table)

---------------------------------------------------------------------------
(* The script, run by run, in one browser session *)

\* a configuration value: missing (None) or given
ConfigValues == {"none", "set"}

\* st.secrets has a "risk_management" section, or the environment is read
Configs ==
    [source : {"secrets", "env"}, wallet_address : ConfigValues,
     private_key : ConfigValues]

\* `not value`
Falsy(v) == v = "none"

\* get_config: the secrets are handed on as found; only the environment
\* fallback checks the two required values, and stops the script
GetConfig(cfg) ==
    IF cfg.source = "secrets"
    THEN [halted |-> FALSE,
          wallet_address |-> cfg.wallet_address,
          private_key |-> cfg.private_key]
    ELSE [halted |-> Falsy(cfg.wallet_address) \/ Falsy(cfg.private_key),
          wallet_address |-> cfg.wallet_address,
          private_key |-> cfg.private_key]

RISK_MGMT_CONFIG == GetConfig(config)

Min(a, b) == IF a < b THEN a ELSE b

\* the st.error message of an operation that failed as a whole
ErrorOf(op) ==
    IF op = "get_account_balance" THEN "Error fetching balance"
    ELSE IF op = "get_open_positions" THEN "Error fetching positions"
    ELSE "Error fetching trade history"

\* a script run starts: its locals are fresh, the session state is kept
NewRun(why) ==
    /\ pc' = "start"
    /\ trigger' = why
    /\ balance' = None
    /\ positions' = <<>>
    /\ trades' = <<>>
    /\ opRaised' = FALSE
    /\ invoked' = {}
    /\ calls' = NoCalls
    /\ msgs' = {}
    /\ view' = NoView
    /\ answered' = NoAnswers
    /\ streak' = IF invoked # Ops \/ client = "none" THEN streak
                  ELSE IF \A o \in Ops : ErrorOf(o) \in msgs
                       THEN Min(streak + 1, MaxStreak)
                  ELSE 0
    /\ UNCHANGED <<config, hasClient, client, initRuns, xPositions, xTrades, failed>>

\* RISK_MGMT_CONFIG = get_config()
LoadConfig ==
    /\ pc = "start"
    /\ IF RISK_MGMT_CONFIG.halted
       THEN /\ pc' = "halted"
            /\ msgs' = msgs \cup {"Configuration Error"}
       ELSE /\ pc' = "session"
            /\ msgs' = msgs
    /\ UNCHANGED <<config, trigger, hasClient, client, initRuns, balance,
                   positions, trades, opRaised, invoked, calls, filter_symbol,
                   filter_side, view, streak, answered, xPositions, xTrades,
                   failed>>

NeedsClientOrUnavailable == ~hasClient \/ client = "none"

\* if 'client' not in st.session_state
NeedsClient == ~hasClient

\* st.session_state.client = RiskManagementClient(RISK_MGMT_CONFIG), once per
\* session; ccxt.hyperliquid(...) returns a connection or raises
InitSession ==
    /\ pc = "session"
    /\ IF NeedsClient
       THEN \E built \in BOOLEAN :
              /\ client' = IF built THEN "conn" ELSE "none"
              /\ msgs' = IF built THEN msgs
                         ELSE msgs \cup {"Error initializing client"}
              /\ initRuns' = initRuns + 1
              /\ hasClient' = TRUE
       ELSE UNCHANGED <<client, msgs, initRuns, hasClient>>
    /\ pc' = "sidebar"
    /\ UNCHANGED <<config, trigger, balance, positions, trades, opRaised,
                   invoked, calls, filter_symbol, filter_side, view, streak,
                   answered, xPositions, xTrades, failed>>

\* the sidebar: wallet_address[:10] raises TypeError on None; a pressed
\* "Refresh Now" button makes st.rerun() start the script over
Sidebar ==
    /\ pc = "sidebar"
    /\ IF Falsy(RISK_MGMT_CONFIG.wallet_address)
       THEN /\ pc' = "crashed"
            /\ UNCHANGED <<trigger, balance, positions, trades, opRaised,
                           invoked, calls, msgs, view, streak, answered,
                           config, hasClient, client, initRuns, xPositions,
                           xTrades, failed>>
       ELSE IF trigger = "button"
       THEN NewRun("rerun")
       ELSE /\ pc' = "balance"
            /\ UNCHANGED <<trigger, balance, positions, trades, opRaised,
                           invoked, calls, msgs, view, streak, answered,
                           config, hasClient, client, initRuns, xPositions,
                           xTrades, failed>>
    /\ UNCHANGED <<filter_symbol, filter_side>>

\* what fetch_balance may answer
BalanceResponses ==
    {Raise(e) : e \in GatewayErrors}
    \cup {ReturnsNone,
          Payload([USDC |-> [total |-> 1000, free |-> 600, used |-> 400]])}

\* the answer as remembered: which exception it was is not kept
Answer(resp) == IF resp.kind = "raise" THEN [kind |-> "raise"] ELSE resp

ClientDroppedOnError(cl, r) == IF r.msgs # {} THEN "none" ELSE cl

\* self.client after an operation: the handlers leave it alone
ClientAfter(cl, r) == cl

\* `balance and 'USDC' in balance`
ShowsBalance(b) == ~IsNone(b) /\ "USDC" \in DOMAIN b

\* the Account Balance section
BalanceSection ==
    /\ pc = "balance"
    /\ \E resp \in BalanceResponses :
         LET r == GetAccountBalance(client, resp) IN
         /\ balance' = IF r.raised THEN balance ELSE r.ret
         /\ opRaised' = r.raised
         /\ calls' = [calls EXCEPT !.fetch_balance = @ + r.calls]
         /\ answered' = IF r.calls > 0
                        THEN [answered EXCEPT !.fetch_balance = Answer(resp)]
                        ELSE answered
         /\ client' = ClientAfter(client, r)
         /\ IF r.raised
            THEN pc' = "crashed" /\ msgs' = msgs
            ELSE /\ pc' = "positions"
                 /\ msgs' = msgs \cup r.msgs \cup
                            (IF ShowsBalance(r.ret) THEN {}
                             ELSE {"Unable to fetch account balance"})
    /\ invoked' = invoked \cup {"get_account_balance"}
    /\ UNCHANGED <<config, trigger, hasClient, initRuns, positions, trades,
                   filter_symbol, filter_side, view, streak, xPositions,
                   xTrades, failed>>

\* what fetch_positions may answer
PositionResponses ==
    {Raise(e) : e \in GatewayErrors}
    \cup {ReturnsNone,
          Payload(<<[symbol |-> symbols[1], side |-> "long", contracts |-> 0],
                    [symbol |-> symbols[2], side |-> "short", contracts |-> 2]>>),
          Payload(<<Junk>>)}

\* the Open Positions section
PositionsSection ==
    /\ pc = "positions"
    /\ \E resp \in PositionResponses :
         LET r == GetOpenPositions(client, resp) IN
         /\ positions' = IF r.raised THEN positions ELSE r.ret
         /\ opRaised' = r.raised
         /\ calls' = [calls EXCEPT !.fetch_positions = @ + r.calls]
         /\ answered' = IF r.calls > 0
                        THEN [answered EXCEPT !.fetch_positions = Answer(resp)]
                        ELSE answered
         /\ client' = ClientAfter(client, r)
         /\ msgs' = msgs \cup r.msgs
         /\ pc' = IF r.raised THEN "crashed" ELSE "trades"
    /\ invoked' = invoked \cup {"get_open_positions"}
    /\ UNCHANGED <<config, trigger, hasClient, initRuns, balance, trades,
                   filter_symbol, filter_side, view, streak, xPositions,
                   xTrades, failed>>

\* what fetch_my_trades may answer for a symbol: the first two symbols have
\* fills, one of them with timestamp None, and the first may deliver a
\* list holding something that is no dict
SymbolResponses(s) ==
    {Raise("NetworkError"), Payload(<<>>)}
    \cup (IF s = symbols[1]
          THEN {ReturnsNone,
                Payload(<<[symbol |-> s, side |-> "buy", timestamp |-> 1000]>>),
                Payload(<<[symbol |-> s, side |-> "sell", timestamp |-> Null]>>),
                Payload(<<Junk>>)}
          ELSE IF s = symbols[2]
          THEN {Payload(<<[symbol |-> s, side |-> "sell", timestamp |-> 2500]>>),
                Payload(<<[symbol |-> s, side |-> "buy", timestamp |-> Null]>>)}
          ELSE {})

\* the Trade History section: the fetch, the rows, the filter widgets with
\* their state, the table and the statistics
TradesSection ==
    /\ pc = "trades"
    /\ \E r1 \in SymbolResponses(symbols[1]), r2 \in SymbolResponses(symbols[2]),
          r3 \in SymbolResponses(symbols[3]), r4 \in SymbolResponses(symbols[4]),
          r5 \in SymbolResponses(symbols[5]) :
         /\ LET resps == (symbols[1] :> r1) @@ (symbols[2] :> r2) @@ (symbols[3] :> r3)
                          @@ (symbols[4] :> r4) @@ (symbols[5] :> r5)
                r == GetTradeHistory(client, resps)
                shown == RenderTrades(r.ret, filter_symbol, filter_side, NowMs)
            IN  /\ trades' = IF r.raised THEN trades ELSE r.ret
                /\ opRaised' = r.raised
                /\ calls' = [calls EXCEPT !.fetch_my_trades = @ + r.calls]
                /\ client' = ClientAfter(client, r)
                /\ msgs' = msgs \cup r.msgs
                /\ IF r.raised
                   THEN /\ pc' = "crashed"
                        /\ UNCHANGED <<view, filter_symbol, filter_side>>
                   ELSE /\ pc' = "footer"
                        /\ view' = shown
                        /\ filter_symbol' = IF shown.rendered
                                            THEN shown.filter_symbol ELSE "All"
                        /\ filter_side' = IF shown.rendered
                                          THEN filter_side ELSE "All"
    /\ invoked' = invoked \cup {"get_trade_history"}
    /\ UNCHANGED <<config, trigger, hasClient, initRuns, balance, positions,
                   streak, answered, xPositions, xTrades, failed>>

\* the footer and st_autorefresh(interval=60 * 1000): the run is complete
Footer ==
    /\ pc = "footer"
    /\ pc' = "idle"
    /\ UNCHANGED <<config, trigger, hasClient, client, initRuns, balance,
                   positions, trades, opRaised, invoked, calls, msgs,
                   filter_symbol, filter_side, view, streak, answered,
                   xPositions, xTrades, failed>>

\* the 60 s timer fires
AutoRefresh ==
    /\ pc = "idle"
    /\ NewRun("auto")
    /\ UNCHANGED <<filter_symbol, filter_side>>

\* the user presses "Refresh Now"
ClickRefresh ==
    /\ pc = "idle"
    /\ NewRun("button")
    /\ UNCHANGED <<filter_symbol, filter_side>>

SelectSymbolInPlace ==
    /\ pc = "idle"
    /\ view.rendered
    /\ \E f \in SymbolOptions(view.rows) \ {filter_symbol} :
         /\ filter_symbol' = f
         /\ view' = RenderTrades(trades, f, filter_side, NowMs)
    /\ trigger' = "filter_symbol"
    /\ invoked' = {}
    /\ calls' = NoCalls
    /\ msgs' = {}
    /\ UNCHANGED <<config, pc, hasClient, client, initRuns, balance, positions,
                   trades, opRaised, filter_side, streak, answered, xPositions,
                   xTrades, failed>>

\* the user picks another entry of "Filter by Symbol": the script runs again
SelectSymbol ==
    /\ pc = "idle"
    /\ view.rendered
    /\ \E f \in SymbolOptions(view.rows) \ {filter_symbol} : filter_symbol' = f
    /\ NewRun("filter_symbol")
    /\ UNCHANGED filter_side

\* the user picks another entry of "Filter by Side": the script runs again
SelectSide ==
    /\ pc = "idle"
    /\ view.rendered
    /\ \E f \in SideOptions \ {filter_side} : filter_side' = f
    /\ NewRun("filter_side")
    /\ UNCHANGED filter_symbol

\* a browser session opens the page: nothing is in st.session_state
Init ==
    /\ config \in Configs
    /\ pc = "start"
    /\ trigger = "load"
    /\ hasClient = FALSE
    /\ client = "none"
    /\ initRuns = 0
    /\ filter_symbol = "All"
    /\ filter_side = "All"
    /\ streak = 0
    /\ FreshRun
    /\ EmptyExchange

Next ==
    \/ LoadConfig
    \/ InitSession
    \/ Sidebar
    \/ BalanceSection
    \/ PositionsSection
    \/ TradesSection
    \/ Footer
    \/ AutoRefresh
    \/ ClickRefresh
    \/ SelectSymbol
    \/ SelectSide

Spec == Init /\ [][Next]_vars

---------------------------------------------------------------------------
(* The claims about the session *)

\* the client exists and its connection could not be constructed
Unavailable == hasClient /\ client = "none"

\* what an unavailable client shows of a run, as far as the run has come
SentinelsOnly ==
    /\ calls = NoCalls
    /\ ~opRaised
    /\ "get_account_balance" \in invoked =>
         (IsNone(balance) /\ "Unable to fetch account balance" \in msgs)
    /\ "get_open_positions" \in invoked => positions = <<>>
    /\ "get_trade_history" \in invoked => trades = <<>>

\* C1: once the construction of the connection has failed, the client stays
\* unavailable in every later run of the session, initialization is not
\* tried again, no gateway call is made, no exception escapes, balance is
\* absent with a warning, positions and trades are empty
C1_InitFailureIsPermanent ==
    [][Unavailable => (Unavailable' /\ initRuns' = initRuns /\ SentinelsOnly')]_vars

\* a timer tick after the failed construction, run to its end
C1_Witness ==
    /\ Unavailable
    /\ pc = "idle"
    /\ trigger = "auto"
    /\ invoked = Ops
    /\ initRuns = 1
    /\ "Error initializing client" \notin msgs
    /\ "Unable to fetch account balance" \in msgs

FilterTriggers == {"filter_symbol", "filter_side"}

CallsOfFullRun ==
    [fetch_balance |-> 1, fetch_positions |-> 1, fetch_my_trades |-> Len(symbols)]

WellFormed(answer) ==
    answer.kind = "ok" /\ \A i \in 1..Len(answer.payload) : IsDict(answer.payload[i])

Starts(op) == op \notin invoked /\ op \in invoked'

\* C4: with an available client every invocation of an operation calls the
\* gateway, whatever happened in earlier runs, the client stays available
\* whatever the call does, and a call that succeeds has its data returned
C4_FetchFailureIsTransient ==
    [][client = "conn" =>
        /\ client' = "conn"
        /\ Starts("get_account_balance") =>
             /\ calls'.fetch_balance = 1
             /\ answered'.fetch_balance.kind = "ok" =>
                  /\ balance' = answered'.fetch_balance.payload
                  /\ ErrorOf("get_account_balance") \notin msgs'
             /\ answered'.fetch_balance.kind = "raise" => IsNone(balance')
        /\ Starts("get_open_positions") =>
             /\ calls'.fetch_positions = 1
             /\ WellFormed(answered'.fetch_positions) =>
                  /\ positions' = NonZeroEntries(answered'.fetch_positions.payload)
                  /\ ErrorOf("get_open_positions") \notin msgs'
             /\ ~WellFormed(answered'.fetch_positions) => positions' = <<>>
        /\ Starts("get_trade_history") =>
             calls'.fetch_my_trades = Len(symbols)
    ]_vars

\* all three operations failed in each of the last MaxStreak runs, and in
\* this run the gateway was called again and its data returned
C4_Witness ==
    /\ pc = "idle"
    /\ client = "conn"
    /\ streak = MaxStreak
    /\ calls = CallsOfFullRun
    /\ answered.fetch_balance.kind = "ok"
    /\ balance = answered.fetch_balance.payload
    /\ Len(positions) = 1
    /\ Len(trades) = 2
    /\ \A o \in Ops : ErrorOf(o) \notin msgs

\* C5: with the wallet address or the private key missing, whatever the
\* source, the script halts with the setup instructions before anything is
\* rendered, before the client is constructed and before any fetch
C5_MissingCredentialHalts ==
    (Falsy(config.wallet_address) \/ Falsy(config.private_key)) =>
        /\ pc \in {"start", "halted"}
        /\ pc = "halted" => "Configuration Error" \in msgs
        /\ ~hasClient
        /\ invoked = {}
        /\ calls = NoCalls

=============================================================================
